---- MODULE Spec2Model ----
(***************************************************************************)
(* AsthmaShield: the artifact registry (train_model.save_model and         *)
(* ml_model.model.load_model), the risk predictor, the explainer entry     *)
(* point and the symptom severity scorer, as state machines.               *)
(*                                                                         *)
(* Strings whose characters the code inspects (model names, file names)    *)
(* are sequences of one-character strings; every other string is a TLA+    *)
(* string.                                                                 *)
(***************************************************************************)
EXTENDS Integers, Sequences, FiniteSets, TLC

VARIABLES
    pc,         \* the caller of the sequential interface: "ready" or "returned"
    files,      \* the ml_model directory: the set of its file entries
    nsaves,     \* number of save_model calls started so far
    lastSave,   \* arguments of the latest completed save_model call, or NoSave
    ret,        \* outcome of the latest call of the sequential interface
    saver,      \* a save_model call in progress (interleaved interface)
    loader,     \* a load_model call in progress (interleaved interface)
    sev,        \* outcome of the latest severity computation
    explainer,  \* the XAIExplainer object a caller holds, or NoExplainer
    expl,       \* outcome of the latest call on that explainer
    callers,    \* the concurrent callers of predict_asthma_risk, by thread
    tr,         \* a train_model run, step by step
    aug,        \* an augment_data call, one synthetic row per step
    view,       \* a request to the prediction view
    store       \* the symptom report file and a verify_report call on it

vars == <<pc, files, nsaves, lastSave, ret, saver, loader, sev, explainer, expl,
          callers, tr, aug, view, store>>

\* the state of augment_data, of the prediction view and of the report file
later == <<aug, view, store>>

\* the state that only the step-by-step specifications use
detail == <<explainer, expl, callers, tr, later>>

----------------------------------------------------------------------------
(* Bounds *)

\* save_model calls in one behaviour
MaxSaves == 2

----------------------------------------------------------------------------
(* Characters and strings *)

UpperCase == <<"A","B","C","D","E","F","G","H","I","J","K","L","M",
               "N","O","P","Q","R","S","T","U","V","W","X","Y","Z">>
LowerCase == <<"a","b","c","d","e","f","g","h","i","j","k","l","m",
               "n","o","p","q","r","s","t","u","v","w","x","y","z">>

\* str.lower(), one character
LowerChar(c) ==
    IF \E i \in DOMAIN UpperCase : UpperCase[i] = c
    THEN LowerCase[CHOOSE i \in DOMAIN UpperCase : UpperCase[i] = c]
    ELSE c

\* str.lower()
Lower(s) == [i \in DOMAIN s |-> LowerChar(s[i])]

\* str.replace(" ", "_")
ReplaceSpace(s) == [i \in DOMAIN s |-> IF s[i] = " " THEN "_" ELSE s[i]]

\* the suffix "_model.pkl"
ModelSuffix == <<"_","m","o","d","e","l",".","p","k","l">>

\* save_model without lower(): the name load_model looks for is never written
SaveFilenameMutantNoLower(model_name) == ReplaceSpace(model_name) \o ModelSuffix
\* f'{model_name.lower().replace(" ", "_")}_model.pkl' in save_model
SaveFilename(model_name) == ReplaceSpace(Lower(model_name)) \o ModelSuffix

\* f'{model_type.lower().replace(" ", "_")}_model.pkl' in load_model
LoadFilename(model_type) == ReplaceSpace(Lower(model_type)) \o ModelSuffix

\* the keys of the models dictionary of train_multiple_models
RandomForest == <<"R","a","n","d","o","m"," ","F","o","r","e","s","t">>
LogisticRegression ==
    <<"L","o","g","i","s","t","i","c"," ","R","e","g","r","e","s","s","i","o","n">>
GradientBoosting ==
    <<"G","r","a","d","i","e","n","t"," ","B","o","o","s","t","i","n","g">>
SVM == <<"S","V","M">>
Families == <<RandomForest, LogisticRegression, GradientBoosting, SVM>>
FamilySet == {Families[i] : i \in DOMAIN Families}

\* the model_type values callers pass: the default and the command-line choices
Best == <<"b","e","s","t">>
random_forest == <<"r","a","n","d","o","m","_","f","o","r","e","s","t">>
logistic_regression ==
    <<"l","o","g","i","s","t","i","c","_","r","e","g","r","e","s","s","i","o","n">>
CallerTypes == {Best, random_forest, logistic_regression}
\* the model_type values predict_asthma_risk is called with
PredictTypes == CallerTypes \cup {SVM}
ModelTypes == CallerTypes \cup FamilySet

\* the three kinds of file in the ml_model directory
DefaultModelFile == random_forest \o ModelSuffix
EncoderFile == <<"l","a","b","e","l","_","e","n","c","o","d","e","r",".","p","k","l">>
FeatureFile ==
    <<"f","e","a","t","u","r","e","_","c","o","l","u","m","n","s",".","p","k","l">>
----------------------------------------------------------------------------
(* Objects that are pickled: pipelines, label encoders, column lists *)

\* feature_columns of load_and_preprocess_data, the order of training
FEATURE_COLUMNS ==
    <<"pm25", "pm10", "temperature", "humidity", "pollen_level", "wind_speed",
      "pressure", "patient_age", "patient_history_severe_attacks",
      "medication_adherence">>

\* column lists a caller of save_model may pass: the training order, the same
\* columns with the first two exchanged, and a list one column short
SwappedColumns ==
    [i \in DOMAIN FEATURE_COLUMNS |->
        IF i = 1 THEN FEATURE_COLUMNS[2]
        ELSE IF i = 2 THEN FEATURE_COLUMNS[1] ELSE FEATURE_COLUMNS[i]]
ShortColumns == SubSeq(FEATURE_COLUMNS, 1, Len(FEATURE_COLUMNS) - 1)
ColumnLists == {FEATURE_COLUMNS, SwappedColumns, ShortColumns}

\* LabelEncoder.classes_ after fit_transform: the labels of the dataset, sorted
AllClasses == <<"High", "Low", "Moderate">>
TwoClasses == <<"High", "Low">>
ClassLists == {AllClasses, TwoClasses}

\* a fitted pipeline: its family, the columns and the classes it was fitted on
Pipeline(family, columns, classes) ==
    [kind |-> "Pipeline", family |-> family, columns |-> columns, classes |-> classes,
     predict_proba |-> TRUE]
\* a fitted pipeline whose classifier has no predict_proba (an SVC built
\* without probability=True)
PipelineNoProba(family, columns, classes) ==
    [kind |-> "Pipeline", family |-> family, columns |-> columns, classes |-> classes,
     predict_proba |-> FALSE]
\* a fitted LabelEncoder
LabelEncoder(classes) ==
    [kind |-> "LabelEncoder", family |-> <<>>, columns |-> <<>>, classes |-> classes,
     predict_proba |-> FALSE]
\* a list of column names
ColumnList(columns) ==
    [kind |-> "list", family |-> <<>>, columns |-> columns, classes |-> <<>>,
     predict_proba |-> FALSE]

\* what train_model hands to save_model: a pipeline fitted on X[feature_columns]
\* and on the labels encoded by le
FitInputs ==
    {<<c, AllClasses>> : c \in ColumnLists} \cup {<<FEATURE_COLUMNS, TwoClasses>>}
\* a caller of save_model may also hand it a pipeline without predict_proba
Fitted ==
    {[model |-> Pipeline(f, d[1], d[2]), le |-> LabelEncoder(d[2]),
      columns |-> ColumnList(d[1])] : f \in FamilySet, d \in FitInputs}
    \cup {[model |-> PipelineNoProba(SVM, FEATURE_COLUMNS, AllClasses),
           le |-> LabelEncoder(AllClasses),
           columns |-> ColumnList(FEATURE_COLUMNS)]}

----------------------------------------------------------------------------
(* The ml_model directory: a set of entries [name, sid, obj]; sid names the *)
(* save_model call that wrote the entry                                     *)

NoObject == [kind |-> "None", family |-> <<>>, columns |-> <<>>, classes |-> <<>>,
             predict_proba |-> FALSE]
NoEntry == [name |-> <<>>, sid |-> 0, obj |-> NoObject]
NoSave == [sid |-> 0, by |-> "none", model_name |-> <<>>,
           model |-> NoObject, le |-> NoObject, columns |-> NoObject]

\* os.path.exists
Exists(dir, path) == \E e \in dir : e.name = path

\* joblib.load of an existing file
Read(dir, path) == CHOOSE e \in dir : e.name = path

\* joblib.dump: creates the file or replaces its content
Dump(dir, path, obj, sid) ==
    {e \in dir : e.name # path} \cup {[name |-> path, sid |-> sid, obj |-> obj]}

----------------------------------------------------------------------------
(* save_model and load_model *)

\* save_model: three dumps, in this order
SaveModelOp(dir, model, le, model_name, feature_columns, sid) ==
    LET d1 == Dump(dir, SaveFilename(model_name), model, sid)
        d2 == Dump(d1, EncoderFile, le, sid)
    IN  Dump(d2, FeatureFile, feature_columns, sid)

\* load_model, up to the three joblib.load calls: the named model file if it
\* exists, random_forest_model.pkl otherwise
ModelPath(dir, model_type) ==
    IF ~Exists(dir, LoadFilename(model_type))
    THEN DefaultModelFile
    ELSE LoadFilename(model_type)

\* load_model: joblib.load raises FileNotFoundError on the first file that is
\* missing, and the handler raises FileNotFoundError again
LoadModelOp(dir, model_type) ==
    LET model_path == ModelPath(dir, model_type)
        missing ==
            IF ~Exists(dir, model_path) THEN model_path
            ELSE IF ~Exists(dir, EncoderFile) THEN EncoderFile
            ELSE IF ~Exists(dir, FeatureFile) THEN FeatureFile
            ELSE <<>>
    IN  IF missing # <<>>
        THEN [outcome |-> "FileNotFoundError", missing |-> missing,
              model |-> NoEntry, le |-> NoEntry, columns |-> NoEntry]
        ELSE [outcome |-> "ok", missing |-> <<>>,
              model |-> Read(dir, model_path),
              le |-> Read(dir, EncoderFile),
              columns |-> Read(dir, FeatureFile)]

----------------------------------------------------------------------------
(* The fitted pipeline and the label encoder, as far as the callers use them *)

Min(a, b) == IF a < b THEN a ELSE b

\* position of a column in a column list, 0 if it is not there
IndexOf(columns, c) ==
    IF \E i \in DOMAIN columns : columns[i] = c
    THEN CHOOSE i \in DOMAIN columns : columns[i] = c
    ELSE 0

\* sklearn's check of the input width against the width seen by fit
WidthOk(model, features) == Len(features) = Len(model.columns)

\* Pipeline.predict: the class index (from 0) of the label the pipeline learnt
\* for the reading it finds at the position pm25 had when it was fitted
ModelPredict(model, features) ==
    LET level == features[IndexOf(model.columns, "pm25")]
        label == IF level >= 2 THEN "High"
                 ELSE IF level = 1 /\ IndexOf(model.classes, "Moderate") > 0
                      THEN "Moderate" ELSE "Low"
    IN  IndexOf(model.classes, label) - 1

\* Pipeline.predict_proba: one percentage per class the pipeline was fitted on
ModelPredictProba(model, features) ==
    LET n == Len(model.classes)
        top == ModelPredict(model, features) + 1
    IN  [i \in 1..n |-> IF i = top THEN 80 ELSE 20 \div (n - 1)]

\* hasattr(model, "predict_proba")
HasPredictProba(model) == model.predict_proba

\* hasattr(classifier, 'feature_importances_'): the tree ensembles
HasFeatureImportances(model) == model.family \in {RandomForest, GradientBoosting}

\* inverse_transform reading the classes from the far end
DecodeMutantReversed(le, index) == le.classes[Len(le.classes) - index]

\* LabelEncoder.inverse_transform of one index: ValueError on an unseen index
CanDecode(le, index) == index >= 0 /\ index < Len(le.classes)
Decode(le, index) == le.classes[index + 1]

\* LabelEncoder.transform of one label: its position, from 0, in the sorted
\* classes the encoder was fitted on
Encode(le, label) == IndexOf(le.classes, label) - 1

\* max(probabilities)
MaxOf(seq) == CHOOSE m \in {seq[i] : i \in DOMAIN seq} :
                  \A i \in DOMAIN seq : seq[i] <= m

\* dict(zip(label_encoder.classes_, probabilities)), as the sequence of its items
ZipDict(classes, probabilities) ==
    [i \in 1..Min(Len(classes), Len(probabilities)) |->
        [label |-> classes[i], p |-> probabilities[i]]]

----------------------------------------------------------------------------
(* get_xai_explanation and predict_asthma_risk *)

\* the ten positional arguments, pm25 first and pm10 second; readings are levels
Levels == {0, 2}
FeatureVectors ==
    {[i \in DOMAIN FEATURE_COLUMNS |-> IF i = 1 THEN a ELSE IF i = 2 THEN b ELSE 0] :
        a \in Levels, b \in Levels}
TestVector == [i \in DOMAIN FEATURE_COLUMNS |-> IF i = 1 THEN 2 ELSE 0]

Methods == {"shap", "lime", "both"}

\* "model" is the model file the explainer loaded (self.model of XAIExplainer)
NoXai == [returned |-> FALSE, error |-> FALSE, shap |-> "absent", lime |-> "absent",
          model |-> NoEntry]

\* XAIExplainer.explain_shap: every exception becomes an error payload; the
\* scaler raises on a vector of the wrong width, and the attribution library
\* may fail (lib_fails)
ExplainShap(model, features, lib_fails) ==
    IF \/ ~WidthOk(model, features)
       \/ lib_fails
       \/ ~HasFeatureImportances(model) /\ ~HasPredictProba(model)
    THEN "error" ELSE "payload"

\* XAIExplainer.explain_lime: likewise
ExplainLime(model, features, lib_fails) ==
    IF ~WidthOk(model, features) \/ lib_fails \/ ~HasPredictProba(model)
    THEN "error" ELSE "payload"

\* get_xai_explanation: XAIExplainer() loads the model named 'best'; a failure
\* there is caught by the handler, which returns {'error': ...}
GetXaiExplanationOp(dir, features, method, shap_fails, lime_fails) ==
    LET ld == LoadModelOp(dir, Best)
    IN  IF ld.outcome # "ok"
        THEN [returned |-> TRUE, error |-> TRUE, shap |-> "absent", lime |-> "absent",
              model |-> NoEntry]
        ELSE [returned |-> TRUE, error |-> FALSE, model |-> ld.model,
              shap |-> IF method \in {"shap", "both"}
                       THEN ExplainShap(ld.model.obj, features, shap_fails)
                       ELSE "absent",
              lime |-> IF method \in {"lime", "both"}
                       THEN ExplainLime(ld.model.obj, features, lime_fails)
                       ELSE "absent"]

\* Python's None where a number is expected; probabilities that are None are
\* the empty sequence
None == 0 - 1

\* the outcome of every call of the sequential interface
RetNone ==
    [op |-> "none", model_type |-> <<>>, outcome |-> "none", cause |-> "none",
     missing |-> <<>>, model |-> NoEntry, le |-> NoEntry, columns |-> NoEntry,
     features |-> <<>>, risk_level |-> "none", confidence |-> None,
     probabilities |-> <<>>, include_xai |-> FALSE, method |-> "none",
     xai |-> NoXai, xai_error |-> FALSE]

\* "except Exception as e: raise Exception(...)" of predict_asthma_risk: the
\* type the caller sees, whatever was raised inside
PredictRaises(cause) == "Exception"

\* predict_asthma_risk up to the result dictionary of lines 62-66: "ok" and the
\* label, confidence and probabilities, or the exception the caller sees
PredictBase(dir, features, model_type, include_xai) ==
    LET ld == LoadModelOp(dir, model_type)
        base == [RetNone EXCEPT !.op = "predict_asthma_risk",
                                !.model_type = model_type,
                                !.features = features,
                                !.include_xai = include_xai,
                                !.missing = ld.missing,
                                !.model = ld.model, !.le = ld.le,
                                !.columns = ld.columns]
        failed(cause) == [base EXCEPT !.outcome = PredictRaises(cause),
                                      !.cause = cause]
    IN  IF ld.outcome # "ok" THEN failed(ld.outcome)
        ELSE IF ~WidthOk(ld.model.obj, features) THEN failed("ValueError")
        ELSE LET prediction_encoded == ModelPredict(ld.model.obj, features)
                 probabilities == ModelPredictProba(ld.model.obj, features)
             IN  IF ~CanDecode(ld.le.obj, prediction_encoded)
                 THEN failed("ValueError")
                 ELSE IF ~HasPredictProba(ld.model.obj)
                 THEN [base EXCEPT
                         !.outcome = "ok",
                         !.risk_level = Decode(ld.le.obj, prediction_encoded),
                         !.confidence = None,
                         !.probabilities = <<>>]
                 ELSE [base EXCEPT
                         !.outcome = "ok",
                         !.risk_level = Decode(ld.le.obj, prediction_encoded),
                         !.confidence = MaxOf(probabilities),
                         !.probabilities = ZipDict(ld.le.obj.classes, probabilities)]

\* predict_asthma_risk without the inner try/except of lines 69-80: a failing
\* import of the explainer module ends the call in the outer handler
PredictAsthmaRiskOpMutantXaiRaises(dir, features, model_type, include_xai, shap_fails, lime_fails, import_fails) ==
    LET result == PredictBase(dir, features, model_type, include_xai)
    IN  IF result.outcome # "ok" \/ ~include_xai THEN result
        ELSE IF import_fails
        THEN [result EXCEPT !.outcome = PredictRaises("ImportError"),
                            !.cause = "ImportError", !.risk_level = "none",
                            !.confidence = None, !.probabilities = <<>>]
        ELSE [result EXCEPT !.xai = GetXaiExplanationOp(dir, features, "both",
                                                        shap_fails, lime_fails)]

\* predict_asthma_risk: with include_xai the explanations are added to the
\* result; an exception of that step (the import of the explainer module
\* failing, import_fails) is recorded as result['xai_error']
PredictAsthmaRiskOp(dir, features, model_type, include_xai, shap_fails, lime_fails, import_fails) ==
    LET result == PredictBase(dir, features, model_type, include_xai)
    IN  IF result.outcome # "ok" \/ ~include_xai THEN result
        ELSE IF import_fails THEN [result EXCEPT !.xai_error = TRUE]
        ELSE [result EXCEPT !.xai = GetXaiExplanationOp(dir, features, "both",
                                                        shap_fails, lime_fails)]

----------------------------------------------------------------------------
(* train_model: the families that trained, the selection, the save *)

Scores == {1, 2}
NoResult == [trained |-> FALSE, accuracy |-> 0]
\* the results dictionary of train_multiple_models, by position in Families;
\* a family whose search raised has no entry
ResultSets ==
    [DOMAIN Families ->
        {NoResult} \cup {[trained |-> TRUE, accuracy |-> a] : a \in Scores}]

\* evaluate_models: sorted(..., key=accuracy, reverse=True)[0][0]; the sort is
\* stable, so among equal accuracies the family trained first comes first
EvaluateModels(results) ==
    LET trained == {i \in DOMAIN results : results[i].trained}
        top == {i \in trained : \A j \in trained :
                    results[j].accuracy <= results[i].accuracy}
    IN  Families[CHOOSE i \in top : \A j \in top : i <= j]

----------------------------------------------------------------------------
(* Symptom severity: SymptomDataCollector._calculate_severity and           *)
(* SymptomReportView.calculate_severity                                     *)

\* indicator names a report may carry; "fever" is in neither severity_map
SymptomNames ==
    {"wheezing", "shortness_of_breath", "chest_tightness", "coughing",
     "difficulty_sleeping", "fever"}

\* the symptoms dictionaries: any subset of the names, each mapped to a boolean
SymptomMaps == UNION {[D -> BOOLEAN] : D \in SUBSET SymptomNames}

\* severity_map with a weight below zero
CollectorSeverityMapMutantNegative ==
    [n \in {"wheezing", "shortness_of_breath", "chest_tightness", "coughing",
            "difficulty_sleeping"} |->
        CASE n = "wheezing" -> 3
          [] n = "shortness_of_breath" -> 3
          [] n = "chest_tightness" -> 2
          [] n = "coughing" -> 2
          [] n = "difficulty_sleeping" -> 0 - 1]

\* severity_map of SymptomDataCollector._calculate_severity
CollectorSeverityMap ==
    [n \in {"wheezing", "shortness_of_breath", "chest_tightness", "coughing",
            "difficulty_sleeping"} |->
        CASE n = "wheezing" -> 3
          [] n = "shortness_of_breath" -> 3
          [] n = "chest_tightness" -> 2
          [] n = "coughing" -> 2
          [] n = "difficulty_sleeping" -> 1]

\* the for loop of _calculate_severity over the items not yet visited
RECURSIVE CollectorScore(_, _)
CollectorScore(symptoms, todo) ==
    IF todo = {} THEN 0
    ELSE LET symptom == CHOOSE k \in todo : TRUE
             present == symptoms[symptom]
         IN  (IF present /\ symptom \in DOMAIN CollectorSeverityMap
              THEN CollectorSeverityMap[symptom] ELSE 0)
             + CollectorScore(symptoms, todo \ {symptom})

\* _calculate_severity with "> 5" for ">= 5"
CollectorCalculateSeverityMutantStrict(symptoms) ==
    LET severity_score == CollectorScore(symptoms, DOMAIN symptoms)
    IN  IF severity_score > 5 THEN "High"
        ELSE IF severity_score >= 3 THEN "Moderate"
        ELSE "Low"
\* SymptomDataCollector._calculate_severity
CollectorCalculateSeverity(symptoms) ==
    LET severity_score == CollectorScore(symptoms, DOMAIN symptoms)
    IN  IF severity_score >= 5 THEN "High"
        ELSE IF severity_score >= 3 THEN "Moderate"
        ELSE "Low"

\* severity_map with another weight for coughing
ViewSeverityMapMutantCough ==
    [n \in {"wheezing", "shortness_of_breath", "chest_tightness", "coughing",
            "difficulty_sleeping"} |->
        CASE n = "wheezing" -> 3
          [] n = "shortness_of_breath" -> 3
          [] n = "chest_tightness" -> 2
          [] n = "coughing" -> 1
          [] n = "difficulty_sleeping" -> 1]

\* severity_map of SymptomReportView.calculate_severity
ViewSeverityMap ==
    [n \in {"wheezing", "shortness_of_breath", "chest_tightness", "coughing",
            "difficulty_sleeping"} |->
        CASE n = "wheezing" -> 3
          [] n = "shortness_of_breath" -> 3
          [] n = "chest_tightness" -> 2
          [] n = "coughing" -> 2
          [] n = "difficulty_sleeping" -> 1]

\* the for loop of calculate_severity over the items not yet visited
RECURSIVE ViewScore(_, _)
ViewScore(symptoms, todo) ==
    IF todo = {} THEN 0
    ELSE LET symptom == CHOOSE k \in todo : TRUE
             present == symptoms[symptom]
         IN  (IF present /\ symptom \in DOMAIN ViewSeverityMap
              THEN ViewSeverityMap[symptom] ELSE 0)
             + ViewScore(symptoms, todo \ {symptom})

\* SymptomReportView.calculate_severity
ViewCalculateSeverity(symptoms) ==
    LET severity_score == ViewScore(symptoms, DOMAIN symptoms)
    IN  IF severity_score >= 5 THEN "High"
        ELSE IF severity_score >= 3 THEN "Moderate"
        ELSE "Low"

NoSeverity == [by |-> "none", symptoms |-> <<>>, severity |-> "none"]

----------------------------------------------------------------------------
(* XAIExplainer: explain_shap and explain_lime on the explainer's own model *)

\* an XAIExplainer object: the three files its constructor loaded
NoExplainer == [loaded |-> FALSE, model |-> NoEntry, le |-> NoEntry,
                columns |-> NoEntry]

\* the outcome of the latest call on the explainer
NoExplanation ==
    [op |-> "none", features |-> <<>>, error |-> FALSE, shape |-> "none",
     feature_importance |-> <<>>, num_features |-> 0, predicted_class |-> "none",
     feature_weights |-> <<>>]

\* the two forms in which the attribution library returns the values of a
\* classifier with several classes: a list with one (samples x features)
\* array per class, or one (samples x features x classes) array
ShapShapes == {"list", "array"}

\* the attribution of feature j (from 1) for class k (from 0): a value that
\* tells the classes and the features apart
ShapValue(k, j) == 10 * (k + 1) + j

\* XAIExplainer.explain_shap, lines 77-93: for a list the entry of the predicted
\* class is taken, anything else is used as it is; shap_vals[0] is then zipped
\* with the feature columns, one item (a vector of numbers) per feature
ExplainShapOp(ex, features, lib_fails, shape) ==
    LET result == [NoExplanation EXCEPT !.op = "explain_shap",
                                        !.features = features]
    IN  IF ExplainShap(ex.model.obj, features, lib_fails) = "error"
        THEN [result EXCEPT !.error = TRUE]
        ELSE LET prediction == ModelPredict(ex.model.obj, features)
                 classes == 1..Len(ex.model.obj.classes)
                 first(j) == IF shape = "list"
                             THEN <<ShapValue(prediction, j)>>
                             ELSE [c \in classes |-> ShapValue(c - 1, j)]
                 columns == ex.columns.obj.columns
                 n == Min(Len(columns), Len(ex.model.obj.columns))
             IN  [result EXCEPT
                    !.shape = shape,
                    !.feature_importance =
                        [j \in 1..n |-> [feature |-> columns[j], value |-> first(j)]]]

\* the explanation's argmax of predict_proba: the one label that
\* explain_instance(top_labels=1) explains
ArgMax(probabilities) ==
    CHOOSE i \in DOMAIN probabilities :
        /\ probabilities[i] = MaxOf(probabilities)
        /\ \A j \in DOMAIN probabilities :
              probabilities[j] = MaxOf(probabilities) => i <= j

\* the surrogate's weight of feature j (from 1) for class k (from 0)
LimeWeight(k, j) == (k + 1) * j

\* the num_features a caller passes; 10 is the default
NumFeatures == {2, 10}

\* exp.as_list(label): at most num_features items of the explained label, the
\* heaviest first
AsList(label, width, num_features) ==
    [i \in 1..Min(num_features, width) |->
        [label |-> label, feature |-> width + 1 - i,
         weight |-> LimeWeight(label, width + 1 - i)]]

\* explain_lime that returns the weight of every feature, whatever num_features
ExplainLimeOpMutantAllWeights(ex, features, num_features, lib_fails) ==
    LET result == [NoExplanation EXCEPT !.op = "explain_lime",
                                        !.features = features,
                                        !.num_features = num_features]
        prediction == ModelPredict(ex.model.obj, features)
    IN  IF \/ ExplainLime(ex.model.obj, features, lib_fails) = "error"
           \/ Len(ex.columns.obj.columns) # Len(features)
           \/ ~CanDecode(ex.le.obj, prediction)
        THEN [result EXCEPT !.error = TRUE]
        ELSE [result EXCEPT
                !.predicted_class = Decode(ex.le.obj, prediction),
                !.feature_weights = AsList(prediction, Len(features), Len(features))]

\* XAIExplainer.explain_lime: every exception becomes an error payload: the
\* library failing, perturbed rows of a width the explainer's feature names or
\* the scaler do not have, an index the encoder cannot decode, a prediction
\* that is not the label the explanation was made for (KeyError of as_list)
ExplainLimeOp(ex, features, num_features, lib_fails) ==
    LET result == [NoExplanation EXCEPT !.op = "explain_lime",
                                        !.features = features,
                                        !.num_features = num_features]
        prediction == ModelPredict(ex.model.obj, features)
        top == ArgMax(ModelPredictProba(ex.model.obj, features)) - 1
    IN  IF \/ ExplainLime(ex.model.obj, features, lib_fails) = "error"
           \/ Len(ex.columns.obj.columns) # Len(features)
           \/ ~CanDecode(ex.le.obj, prediction)
           \/ top # prediction
        THEN [result EXCEPT !.error = TRUE]
        ELSE [result EXCEPT
                !.predicted_class = Decode(ex.le.obj, prediction),
                !.feature_weights = AsList(prediction, Len(features), num_features)]

----------------------------------------------------------------------------
(* Concurrent callers of predict_asthma_risk *)

\* request threads of the web layer
Threads == {1, 2}

NotCalling == [pc |-> "idle", features |-> <<>>, model_type |-> <<>>,
               include_xai |-> FALSE, epoch |-> 0, outcome |-> "none",
               risk_level |-> "none", probabilities |-> <<>>]

\* a prediction that deletes what it has read
FilesAfterPredictMutantConsume(dir) == {}

\* the ml_model directory after a predict_asthma_risk call on dir: the call
\* opens its files with joblib.load only
FilesAfterPredict(dir) == dir

----------------------------------------------------------------------------
(* train_model step by step: the table, the split, the family loop *)

\* n_augment of train_model's call of augment_data is 1000; the model adds
\* fewer synthetic rows
NAugment == 2

LabelSet == {AllClasses[i] : i \in DOMAIN AllClasses}

\* rows per label in datasets/asthma_data.csv: none, one, two, many; the
\* common label Low is always there
CountLevels == {0, 1, 2, 10}
Datasets == {d \in [LabelSet -> CountLevels] : d["Low"] = 10}
NoCounts == [l \in LabelSet |-> 0]

\* LabelEncoder.fit_transform: the labels that occur, sorted
ClassesOf(counts) == SelectSeq(AllClasses, LAMBDA l : counts[l] > 0)

\* number of rows of the table
Rows(counts) == counts["High"] + counts["Low"] + counts["Moderate"]

\* train_test_split(test_size=0.2, stratify=y): the test part has
\* ceil(0.2 * n) rows; ValueError if a class has fewer than 2 members or a
\* part has fewer rows than there are classes
SplitRaises(counts) ==
    LET n_test == (Rows(counts) + 4) \div 5
        n_train == Rows(counts) - n_test
        n_classes == Len(ClassesOf(counts))
    IN  \/ \E l \in LabelSet : counts[l] = 1
        \/ n_train < n_classes
        \/ n_test < n_classes

\* what the search of one family does: it raises, or it gives a test accuracy
\* and a mean cross-validation score
Raising == [raises |-> TRUE, accuracy |-> 0, cv_mean |-> 0]
FamilyPlans ==
    {Raising} \cup {[raises |-> FALSE, accuracy |-> a, cv_mean |-> c] :
                        a \in Scores, c \in Scores}
TrainPlans == [DOMAIN Families -> FamilyPlans]
NoPlan == [i \in DOMAIN Families |-> Raising]

\* an entry of the results dictionary; a family without entry is NoTrainResult
NoTrainResult == [trained |-> FALSE, accuracy |-> 0, cv_mean |-> 0]
NoResults == [i \in DOMAIN Families |-> NoTrainResult]

NotTraining ==
    [pc |-> "idle", model_type |-> <<>>, augment |-> FALSE, scarce |-> FALSE,
     counts |-> NoCounts,
     added |-> 0, classes |-> <<>>, plan |-> NoPlan, i |-> 1,
     results |-> NoResults, outcome |-> "none", best |-> <<>>]

\* one pass of the loop of train_multiple_models over family t.i, without the
\* try/except: the exception of a search leaves the function
FamilyStepMutantAbort(t) ==
    IF t.plan[t.i].raises
    THEN [t EXCEPT !.pc = "raised", !.outcome = "Exception"]
    ELSE [t EXCEPT
            !.results[t.i] = [trained |-> TRUE,
                              accuracy |-> t.plan[t.i].accuracy,
                              cv_mean |-> t.plan[t.i].cv_mean],
            !.i = t.i + 1,
            !.pc = IF t.i = Len(Families) THEN "trained" ELSE "train"]

\* one pass of the loop of train_multiple_models over family t.i: a search
\* that raises is printed and skipped (continue), otherwise results[name] is set
FamilyStep(t) ==
    [t EXCEPT
        !.results[t.i] = IF t.plan[t.i].raises THEN NoTrainResult
                         ELSE [trained |-> TRUE,
                               accuracy |-> t.plan[t.i].accuracy,
                               cv_mean |-> t.plan[t.i].cv_mean],
        !.i = t.i + 1,
        !.pc = IF t.i = Len(Families) THEN "trained" ELSE "train"]

----------------------------------------------------------------------------
(* augment_data, one synthetic row per step (train_model.py) *)

\* the columns of the table once the target is attached; of the ten feature
\* columns the model keeps the four the code clamps and one it does not
AugColumns == <<"pm25", "pm10", "temperature", "humidity", "medication_adherence", "target">>

\* rows a table can hold; targets are encoded labels
SampleRows == { [pm25 |-> 30, pm10 |-> 60, temperature |-> 25, humidity |-> 50, medication_adherence |-> 1, target |-> 1],
                [pm25 |-> 0, pm10 |-> 10, temperature |-> 0 - 5, humidity |-> 100, medication_adherence |-> 0, target |-> 2] }

\* the tables handed to augment_data: up to two rows, the empty table included
Tables == UNION { [1..k -> SampleRows] : k \in 0..2 }

\* what np.random.normal draws for one row, per column, in units of the
\* absolute value of the field (the scale of the draw is 0.1 * abs(value), so
\* a field that is 0 gets noise 0)
Draws == { [c \in {AugColumns[i] : i \in DOMAIN AugColumns} |-> k] : k \in {0 - 2, 0, 2} } \cup { [pm25 |-> 2, pm10 |-> 0 - 2, temperature |-> 2, humidity |-> 0 - 2, medication_adherence |-> 2, target |-> 2] }

Abs(x) == IF x < 0 THEN 0 - x ELSE x
Max(a, b) == IF b > a THEN b ELSE a

\* sample[col] += noise, for the columns given, in order
RECURSIVE AddNoise(_, _, _)
AddNoise(sample, cols, draw) == IF cols = <<>> THEN sample ELSE AddNoise([sample EXCEPT ![Head(cols)] = @ + draw[Head(cols)] * Abs(@)], Tail(cols), draw)

PerturbMutantAllColumns(sample, draw) == AddNoise(sample, AugColumns, draw)

\* the noise loop: for col in df.columns[:-1]
Perturb(sample, draw) == AddNoise(sample, SubSeq(AugColumns, 1, Len(AugColumns) - 1), draw)

ClampMutantNoCeiling(sample) == [sample EXCEPT !.pm25 = Max(0, @), !.pm10 = Max(0, @), !.humidity = Max(0, @), !.medication_adherence = Max(0, @)]

\* "Ensure realistic bounds"
Clamp(sample) == [sample EXCEPT !.pm25 = Max(0, @), !.pm10 = Max(0, @), !.humidity = Max(0, Min(100, @)), !.medication_adherence = Max(0, Min(1, @))]

CombineMutantSyntheticFirst(df, augmented_data) == augmented_data \o df

\* pd.concat([df, augmented_df], ignore_index=True)
Combine(df, augmented_data) == df \o augmented_data

\* X_combined and y_combined of a combined table
DropTarget(rows) == [i \in DOMAIN rows |-> [c \in (DOMAIN rows[i]) \ {"target"} |-> rows[i][c]]]
TargetOf(rows) == [i \in DOMAIN rows |-> rows[i].target]

NotAugmenting == [pc |-> "idle", X |-> <<>>, df |-> <<>>, n_augment |-> 0, src |-> <<>>, noisy |-> <<>>, augmented_data |-> <<>>, X_combined |-> <<>>, y_combined |-> <<>>, outcome |-> "none"]

----------------------------------------------------------------------------
(* PredictView.get and the alert it may send (views.py, notifications.py) *)

\* the values of the email and phone parameters; '' is the default for a
\* parameter the request does not carry
Emails == {"", "user@example.org"}
Phones == {"", "+911234567890"}

\* no request yet
NoRequest == [pc |-> "idle", served |-> 0, email |-> "", phone |-> "", asthma_risk |-> "", alerts |-> 0, email_calls |-> 0, sms_calls |-> 0, status |-> 0]

\* truth value of a Python string
Truthy(s) == s # ""

AlertDueMutantAnyRisk(asthma_risk, user_email, user_phone) == Truthy(user_email) \/ Truthy(user_phone)

\* the condition under which the view sends an alert
AlertDue(asthma_risk, user_email, user_phone) == asthma_risk = "High" /\ (Truthy(user_email) \/ Truthy(user_phone))

----------------------------------------------------------------------------
(* The symptom report file (data_collection.py) *)

EmptyStore == [rows |-> <<>>, saved |-> <<>>, pc |-> "idle", report_id |-> 0, read |-> <<>>]

----------------------------------------------------------------------------
(* Initial state: an empty ml_model directory, nothing called yet *)

Idle == [pc |-> "idle", sid |-> 0, model_name |-> <<>>,
         model |-> NoObject, le |-> NoObject, columns |-> NoObject]
NotLoading == [pc |-> "idle", model_type |-> <<>>, model_path |-> <<>>,
               missing |-> <<>>, model |-> NoEntry, le |-> NoEntry,
               columns |-> NoEntry]

Init ==
    /\ pc = "ready"
    /\ files = {}
    /\ nsaves = 0
    /\ lastSave = NoSave
    /\ ret = RetNone
    /\ saver = Idle
    /\ loader = NotLoading
    /\ sev = NoSeverity
    /\ explainer = NoExplainer
    /\ expl = NoExplanation
    /\ callers = [t \in Threads |-> NotCalling]
    /\ tr = NotTraining
    /\ aug = NotAugmenting
    /\ view = NoRequest
    /\ store = EmptyStore

----------------------------------------------------------------------------
(* The sequential interface: each call runs from start to end *)

\* a direct call of save_model with a fitted pipeline under its family's name
SaveModel(fit) ==
    /\ pc = "ready"
    /\ pc' = "returned"
    /\ nsaves < MaxSaves
    /\ nsaves' = nsaves + 1
    /\ files' = SaveModelOp(files, fit.model, fit.le, fit.model.family,
                            fit.columns, nsaves + 1)
    /\ lastSave' = [sid |-> nsaves + 1, by |-> "save_model",
                    model_name |-> fit.model.family, model |-> fit.model,
                    le |-> fit.le, columns |-> fit.columns]
    /\ ret' = [RetNone EXCEPT !.op = "save_model", !.outcome = "ok"]
    /\ UNCHANGED <<detail, saver, loader, sev>>

\* train_model: no family trained -> (None, None), nothing written; otherwise
\* the selected pipeline is saved under the name of its family
TrainModel(results, classes) ==
    /\ pc = "ready"
    /\ pc' = "returned"
    /\ nsaves < MaxSaves
    /\ IF \A i \in DOMAIN results : ~results[i].trained
       THEN /\ ret' = [RetNone EXCEPT !.op = "train_model", !.outcome = "None"]
            /\ UNCHANGED <<detail, files, nsaves, lastSave>>
       ELSE LET best_model_name == EvaluateModels(results)
                best_model == Pipeline(best_model_name, FEATURE_COLUMNS, classes)
                le == LabelEncoder(classes)
                feature_columns == ColumnList(FEATURE_COLUMNS)
            IN  /\ nsaves' = nsaves + 1
                /\ files' = SaveModelOp(files, best_model, le, best_model_name,
                                        feature_columns, nsaves + 1)
                /\ lastSave' = [sid |-> nsaves + 1, by |-> "train_model",
                                model_name |-> best_model_name,
                                model |-> best_model, le |-> le,
                                columns |-> feature_columns]
                /\ ret' = [RetNone EXCEPT !.op = "train_model", !.outcome = "ok"]
    /\ UNCHANGED <<detail, saver, loader, sev>>

\* load_model
LoadModel(model_type) ==
    LET ld == LoadModelOp(files, model_type)
    IN  /\ pc = "ready"
        /\ pc' = "returned"
        /\ ret' = [RetNone EXCEPT !.op = "load_model", !.model_type = model_type,
                                  !.outcome = ld.outcome, !.missing = ld.missing,
                                  !.model = ld.model, !.le = ld.le,
                                  !.columns = ld.columns]
        /\ UNCHANGED <<detail, files, nsaves, lastSave, saver, loader, sev>>

\* predict_asthma_risk
PredictAsthmaRisk(features, model_type, include_xai, shap_fails, lime_fails, import_fails) ==
    /\ pc = "ready"
    /\ pc' = "returned"
    /\ ret' = PredictAsthmaRiskOp(files, features, model_type, include_xai,
                                  shap_fails, lime_fails, import_fails)
    /\ UNCHANGED <<detail, files, nsaves, lastSave, saver, loader, sev>>

\* get_xai_explanation
GetXaiExplanation(features, method, shap_fails, lime_fails) ==
    /\ pc = "ready"
    /\ pc' = "returned"
    /\ ret' = [RetNone EXCEPT
                 !.op = "get_xai_explanation", !.outcome = "ok",
                 !.features = features, !.method = method,
                 !.xai = GetXaiExplanationOp(files, features, method,
                                             shap_fails, lime_fails)]
    /\ UNCHANGED <<detail, files, nsaves, lastSave, saver, loader, sev>>

\* the caller has used the result and goes on to its next call
Continue ==
    /\ pc = "returned"
    /\ pc' = "ready"
    /\ ret' = RetNone
    /\ sev' = NoSeverity
    /\ expl' = NoExplanation
    /\ UNCHANGED <<later, files, nsaves, lastSave, saver, loader, explainer, callers, tr>>

\* whether the attribution library fails matters only where it is called
Fails(called) == IF called THEN BOOLEAN ELSE {FALSE}

\* every call starts at pc = "ready"; the guard is repeated ahead of the
\* inputs so that they are enumerated only where a call can start
Next ==
    \/ pc = "ready" /\ nsaves < MaxSaves /\ \E fit \in Fitted : SaveModel(fit)
    \/ pc = "ready" /\ nsaves < MaxSaves /\ \E results \in ResultSets, classes \in ClassLists : TrainModel(results, classes)
    \/ pc = "ready" /\ \E model_type \in ModelTypes : LoadModel(model_type)
    \/ pc = "ready" /\ \E features \in FeatureVectors, model_type \in PredictTypes,
          include_xai \in BOOLEAN :
          \E import_fails \in Fails(include_xai) :
          \E shap_fails \in Fails(include_xai /\ ~import_fails),
             lime_fails \in Fails(include_xai /\ ~import_fails) :
            PredictAsthmaRisk(features, model_type, include_xai, shap_fails,
                              lime_fails, import_fails)
    \/ pc = "ready" /\ \E features \in FeatureVectors, method \in Methods :
          \E shap_fails \in Fails(method \in {"shap", "both"}),
             lime_fails \in Fails(method \in {"lime", "both"}) :
            GetXaiExplanation(features, method, shap_fails, lime_fails)
    \/ Continue

Spec == Init /\ [][Next]_vars

----------------------------------------------------------------------------
(* The severity interface *)

CollectorSeverity(symptoms) ==
    /\ pc = "ready"
    /\ pc' = "returned"
    /\ sev' = [by |-> "collector", symptoms |-> symptoms,
               severity |-> CollectorCalculateSeverity(symptoms)]
    /\ UNCHANGED <<detail, files, nsaves, lastSave, ret, saver, loader>>

ViewSeverity(symptoms) ==
    /\ pc = "ready"
    /\ pc' = "returned"
    /\ sev' = [by |-> "view", symptoms |-> symptoms,
               severity |-> ViewCalculateSeverity(symptoms)]
    /\ UNCHANGED <<detail, files, nsaves, lastSave, ret, saver, loader>>

NextSeverity ==
    \/ \E symptoms \in SymptomMaps : CollectorSeverity(symptoms)
    \/ \E symptoms \in SymptomMaps : ViewSeverity(symptoms)
    \/ Continue

SpecSeverity == Init /\ [][NextSeverity]_vars

----------------------------------------------------------------------------
(* The interleaved interface: one save_model call and one load_model call   *)
(* at a time, each advancing by one file operation                          *)

\* save_model is called: nothing is written yet
SaveBegin(fit) ==
    /\ saver.pc = "idle"
    /\ nsaves < MaxSaves
    /\ nsaves' = nsaves + 1
    /\ saver' = [pc |-> "dump_model", sid |-> nsaves + 1,
                 model_name |-> fit.model.family, model |-> fit.model,
                 le |-> fit.le, columns |-> fit.columns]
    /\ UNCHANGED <<detail, pc, files, lastSave, ret, loader, sev>>

\* joblib.dump(model, model_path)
SaveDumpModel ==
    /\ saver.pc = "dump_model"
    /\ files' = Dump(files, SaveFilename(saver.model_name), saver.model, saver.sid)
    /\ saver' = [saver EXCEPT !.pc = "dump_encoder"]
    /\ UNCHANGED <<detail, pc, nsaves, lastSave, ret, loader, sev>>

\* joblib.dump(le, encoder_path)
SaveDumpEncoder ==
    /\ saver.pc = "dump_encoder"
    /\ files' = Dump(files, EncoderFile, saver.le, saver.sid)
    /\ saver' = [saver EXCEPT !.pc = "dump_columns"]
    /\ UNCHANGED <<detail, pc, nsaves, lastSave, ret, loader, sev>>

\* joblib.dump(feature_columns, feature_path), and save_model returns
SaveDumpColumns ==
    /\ saver.pc = "dump_columns"
    /\ files' = Dump(files, FeatureFile, saver.columns, saver.sid)
    /\ lastSave' = [sid |-> saver.sid, by |-> "save_model",
                    model_name |-> saver.model_name, model |-> saver.model,
                    le |-> saver.le, columns |-> saver.columns]
    /\ saver' = Idle
    /\ UNCHANGED <<detail, pc, nsaves, ret, loader, sev>>

\* load_model is called: the os.path.exists test chooses model_path
LoadBegin(model_type) ==
    /\ loader.pc \in {"idle", "done", "failed"}
    /\ loader' = [NotLoading EXCEPT !.pc = "load_model",
                                    !.model_type = model_type,
                                    !.model_path = ModelPath(files, model_type)]
    /\ UNCHANGED <<detail, pc, files, nsaves, lastSave, ret, saver, sev>>

\* one joblib.load: FileNotFoundError if the file is not there
LoadStep(at, path, next) ==
    /\ loader.pc = at
    /\ IF Exists(files, path)
       THEN loader' = [loader EXCEPT !.pc = next,
                          !.model = IF at = "load_model"
                                    THEN Read(files, path) ELSE @,
                          !.le = IF at = "load_encoder"
                                 THEN Read(files, path) ELSE @,
                          !.columns = IF at = "load_columns"
                                      THEN Read(files, path) ELSE @]
       ELSE loader' = [loader EXCEPT !.pc = "failed", !.missing = path]
    /\ UNCHANGED <<detail, pc, files, nsaves, lastSave, ret, saver, sev>>

\* model = joblib.load(model_path)
LoadReadModel == LoadStep("load_model", loader.model_path, "load_encoder")
\* label_encoder = joblib.load(encoder_path)
LoadReadEncoder == LoadStep("load_encoder", EncoderFile, "load_columns")
\* feature_columns = joblib.load(feature_path), and load_model returns
LoadReadColumns == LoadStep("load_columns", FeatureFile, "done")

NextConc ==
    \/ \E fit \in Fitted : SaveBegin(fit)
    \/ SaveDumpModel
    \/ SaveDumpEncoder
    \/ SaveDumpColumns
    \/ \E model_type \in ModelTypes : LoadBegin(model_type)
    \/ LoadReadModel
    \/ LoadReadEncoder
    \/ LoadReadColumns

SpecConc == Init /\ [][NextConc]_vars

----------------------------------------------------------------------------
(* Claims *)

\* a recognised or unrecognised indicator is reported and true
Has(symptoms, n) == n \in DOMAIN symptoms /\ symptoms[n]

\* the sum the specification prescribes, written out indicator by indicator
PrescribedTotal(symptoms) ==
      (IF Has(symptoms, "wheezing") THEN 3 ELSE 0)
    + (IF Has(symptoms, "shortness_of_breath") THEN 3 ELSE 0)
    + (IF Has(symptoms, "chest_tightness") THEN 2 ELSE 0)
    + (IF Has(symptoms, "coughing") THEN 2 ELSE 0)
    + (IF Has(symptoms, "difficulty_sleeping") THEN 1 ELSE 0)

\* C1: for every mapping of indicator names to booleans, both severity
\* functions return High when the weights of the recognised true indicators
\* sum to 5 or more, Moderate when they sum to 3 or 4 and Low below 3;
\* unrecognised names add nothing and raise nothing; {wheezing,
\* shortness_of_breath} gives High and {coughing} gives Low.
C1_SeverityTier ==
    sev.by # "none" =>
        LET total == PrescribedTotal(sev.symptoms)
        IN  /\ sev.severity = IF total >= 5 THEN "High"
                              ELSE IF total \in {3, 4} THEN "Moderate"
                              ELSE "Low"
            /\ (/\ {"wheezing", "shortness_of_breath"} \subseteq DOMAIN sev.symptoms
                /\ \A n \in DOMAIN sev.symptoms :
                    sev.symptoms[n] <=> n \in {"wheezing", "shortness_of_breath"})
                => sev.severity = "High"
            /\ (/\ "coughing" \in DOMAIN sev.symptoms
                /\ \A n \in DOMAIN sev.symptoms : sev.symptoms[n] <=> n = "coughing")
                => sev.severity = "Low"

\* C1 witness: the collector scored a report with an unrecognised true
\* indicator next to wheezing and coughing (total exactly 5) as High.
C1_Witness ==
    /\ sev.by = "collector"
    /\ Has(sev.symptoms, "fever")
    /\ Has(sev.symptoms, "wheezing")
    /\ Has(sev.symptoms, "coughing")
    /\ PrescribedTotal(sev.symptoms) = 5
    /\ sev.severity = "High"

\* C2: load_model(name), when a model was saved under that name, returns it
\* together with the label encoder and the feature columns written by the same
\* save_model call that wrote the model.
C2_LoadedAsOneUnit ==
    (/\ ret.op = "load_model"
     /\ ret.outcome = "ok"
     /\ ret.model.name = LoadFilename(ret.model_type))
    => /\ ret.le.sid = ret.model.sid
       /\ ret.columns.sid = ret.model.sid

\* every model file in the directory was written under one name
OneModelFile == Cardinality({e \in files : e.obj.kind = "Pipeline"}) <= 1

\* C3: a load_model call that interleaves with save_model calls never returns
\* a model with a label encoder or feature columns written by another save
\* than the one that wrote the model.  Stated for directories that only ever
\* held one model name, where calls that do not overlap always return a
\* matching triple.
C3_AtomicWrites ==
    (loader.pc = "done" /\ OneModelFile)
    => /\ loader.le.sid = loader.model.sid
       /\ loader.columns.sid = loader.model.sid

\* C4: after train_model has selected and saved its best family, load_model
\* with the default name 'best' returns the artifact that this training run
\* saved.
C4_BestAlias ==
    (/\ ret.op = "load_model"
     /\ ret.model_type = Best
     /\ lastSave.by = "train_model")
    => /\ ret.outcome = "ok"
       /\ ret.model.sid = lastSave.sid

\* C5: load_model fails with FileNotFoundError only when the model file it
\* falls back to, random_forest_model.pkl, is absent.
C5_FailsOnlyWithoutDefault ==
    loader.pc = "failed" => loader.missing = DefaultModelFile

\* the prediction a pipeline and an encoder give for a vector
PredictionOf(model, le, features) ==
    IF ~WidthOk(model, features) THEN "ValueError"
    ELSE IF ~CanDecode(le, ModelPredict(model, features)) THEN "ValueError"
    ELSE Decode(le, ModelPredict(model, features))

\* C6: load_model of the name of the latest save_model call, with no save in
\* between, returns the model, encoder and column list of that call, which
\* give the prediction for the test vector that the saved ones give; for every
\* name, with spaces and upper-case letters or without.
C6_SaveThenLoad ==
    (/\ ret.op = "load_model"
     /\ lastSave.sid > 0
     /\ ret.model_type = lastSave.model_name)
    => /\ ret.outcome = "ok"
       /\ ret.model.sid = lastSave.sid /\ ret.model.obj = lastSave.model
       /\ ret.le.sid = lastSave.sid /\ ret.le.obj = lastSave.le
       /\ ret.columns.sid = lastSave.sid /\ ret.columns.obj = lastSave.columns
       /\ PredictionOf(ret.model.obj, ret.le.obj, TestVector)
            = PredictionOf(lastSave.model, lastSave.le, TestVector)

\* C6 witness: the second save was under "Logistic Regression" and the load of
\* "Logistic Regression" that followed returned.
C6_Witness ==
    /\ ret.op = "load_model"
    /\ ret.model_type = LogisticRegression
    /\ lastSave.model_name = LogisticRegression
    /\ lastSave.sid = 2
    /\ ret.outcome = "ok"

\* C7: a prediction whose vector has another number of fields than the
\* persisted column list fails with FeatureMismatch.
C7_WrongCountIsFeatureMismatch ==
    (/\ ret.op = "predict_asthma_risk"
     /\ ret.missing = <<>>
     /\ Len(ret.features) # Len(ret.columns.obj.columns))
    => ret.outcome = "FeatureMismatch"

\* C8: a prediction against persisted feature columns that differ from the
\* order in which predict_asthma_risk assembles the values is rejected with
\* FeatureMismatch and is not computed on misordered values.  Stated for
\* persisted columns of the right count in another order; a differing count
\* is the case of C7.
C8_WrongOrderIsRejected ==
    (/\ ret.op = "predict_asthma_risk"
     /\ ret.missing = <<>>
     /\ Len(ret.columns.obj.columns) = Len(ret.features)
     /\ ret.columns.obj.columns # FEATURE_COLUMNS)
    => ret.outcome = "FeatureMismatch"

\* C9: when a model artifact is missing, predict_asthma_risk fails with
\* FileNotFoundError, which the caller can catch by type.
C9_MissingArtifactIsTyped ==
    (ret.op = "predict_asthma_risk" /\ ret.missing # <<>>)
    => ret.outcome = "FileNotFoundError"

\* C10: every result of get_xai_explanation with method 'both' has a 'shap'
\* slot and a 'lime' slot, each an attribution payload or an error payload,
\* also when the explainer cannot be loaded.
C10_BothSlots ==
    (ret.op = "get_xai_explanation" /\ ret.method = "both")
    => /\ ret.xai.shap \in {"payload", "error"}
       /\ ret.xai.lime \in {"payload", "error"}

----------------------------------------------------------------------------
(* Explanations attached to a prediction *)

\* the same prediction requested without explanations, on the same directory
PlainPrediction == PredictAsthmaRiskOp(files, ret.features, ret.model_type,
                                       FALSE, FALSE, FALSE, FALSE)

\* C11: a prediction requested with explanations ends as the same prediction
\* requested without them ends, with the same risk_level, confidence and
\* probabilities, whatever the explanation step did; and when it returned, a
\* method that gave no explanation has its failure in the result: as
\* xai_error, as the top-level error of xai_explanations, or as the error
\* payload in the method's slot.
C11_ExplanationsDoNotChangePrediction ==
    (ret.op = "predict_asthma_risk" /\ ret.include_xai) =>
      LET plain == PlainPrediction
      IN
        /\ ret.outcome = plain.outcome
        /\ ret.risk_level = plain.risk_level
        /\ ret.confidence = plain.confidence
        /\ ret.probabilities = plain.probabilities
        /\ ret.outcome = "ok" =>
             \/ ret.xai_error /\ ~ret.xai.returned
             \/ ret.xai.returned /\ ret.xai.error
             \/ /\ ret.xai.returned
                /\ ret.xai.shap \in {"payload", "error"}
                /\ ret.xai.lime \in {"payload", "error"}

\* C11 witness: a prediction with explanations returned its label although
\* one method failed and the other explained
C11_Witness ==
    /\ ret.op = "predict_asthma_risk" /\ ret.include_xai
    /\ ret.outcome = "ok" /\ ret.risk_level = "High"
    /\ ret.xai.shap = "error" /\ ret.xai.lime = "payload"

\* C12: the explanations attached to a prediction are computed over the model
\* that produced the prediction: whenever predict_asthma_risk with include_xai
\* returned explanations, the model file the explainer loaded is the model
\* file the predictor loaded for its model_type.
C12_ExplainerUsesPredictorModel ==
    (/\ ret.op = "predict_asthma_risk" /\ ret.include_xai
     /\ ret.outcome = "ok" /\ ret.xai.returned /\ ~ret.xai.error) =>
        ret.xai.model = ret.model

----------------------------------------------------------------------------
(* The explainer interface: an XAIExplainer is built, then asked *)

\* XAIExplainer(model_type): load_model; if it raises there is no new object
NewExplainer(model_type) ==
    LET ld == LoadModelOp(files, model_type)
    IN  /\ pc = "ready"
        /\ pc' = "returned"
        /\ explainer' = IF ld.outcome = "ok"
                        THEN [loaded |-> TRUE, model |-> ld.model, le |-> ld.le,
                              columns |-> ld.columns]
                        ELSE explainer
        /\ expl' = [NoExplanation EXCEPT !.op = "XAIExplainer",
                                         !.error = (ld.outcome # "ok")]
        /\ UNCHANGED <<later, files, nsaves, lastSave, ret, saver, loader, sev, callers, tr>>

\* explainer.explain_shap(features)
ExplainShapCall(features, lib_fails, shape) ==
    /\ pc = "ready"
    /\ explainer.loaded
    /\ pc' = "returned"
    /\ expl' = ExplainShapOp(explainer, features, lib_fails, shape)
    /\ UNCHANGED <<later, files, nsaves, lastSave, ret, saver, loader, sev, explainer,
                   callers, tr>>

\* explainer.explain_lime(features, num_features)
ExplainLimeCall(features, num_features, lib_fails) ==
    /\ pc = "ready"
    /\ explainer.loaded
    /\ pc' = "returned"
    /\ expl' = ExplainLimeOp(explainer, features, num_features, lib_fails)
    /\ UNCHANGED <<later, files, nsaves, lastSave, ret, saver, loader, sev, explainer,
                   callers, tr>>

NextExplain ==
    \/ \E fit \in Fitted : SaveModel(fit)
    \/ \E model_type \in CallerTypes : NewExplainer(model_type)
    \/ \E features \in FeatureVectors, lib_fails \in BOOLEAN, shape \in ShapShapes :
          ExplainShapCall(features, lib_fails, shape)
    \/ \E features \in FeatureVectors, num_features \in NumFeatures,
          lib_fails \in BOOLEAN :
          ExplainLimeCall(features, num_features, lib_fails)
    \/ Continue

SpecExplain == Init /\ [][NextExplain]_vars

\* the class index the explainer's model predicts for the explained features
ExplainedPrediction == ModelPredict(explainer.model.obj, expl.features)

\* C13: the additive (SHAP) attribution returned is the attribution of the
\* class index the model predicts for the same features, in every form in
\* which the library returns its per-class values: each feature's importance
\* is the one value of that feature for the predicted class.
C13_ShapOfPredictedClass ==
    (expl.op = "explain_shap" /\ ~expl.error) =>
        \A j \in DOMAIN expl.feature_importance :
            expl.feature_importance[j].value = <<ShapValue(ExplainedPrediction, j)>>

\* C14: a successful surrogate (LIME) explanation reports at most num_features
\* weights, all of the predicted class index; its predicted_class is the
\* decoded label of that index, and equals the risk_level of every main
\* prediction that loads the explainer's model and encoder.
C14_LimeOfPredictedClass ==
    (expl.op = "explain_lime" /\ ~expl.error) =>
        /\ Len(expl.feature_weights) <= expl.num_features
        /\ \A i \in DOMAIN expl.feature_weights :
              expl.feature_weights[i].label = ExplainedPrediction
        /\ expl.predicted_class = Decode(explainer.le.obj, ExplainedPrediction)
        /\ \A model_type \in CallerTypes :
              LET main == PredictBase(files, expl.features, model_type, FALSE)
              IN  (/\ main.outcome = "ok"
                   /\ main.model = explainer.model
                   /\ main.le = explainer.le) =>
                      expl.predicted_class = main.risk_level

\* C14 witness: a successful explanation of a High prediction with
\* num_features = 2 on the model that the main predictor also loads
C14_Witness ==
    /\ expl.op = "explain_lime" /\ ~expl.error
    /\ expl.num_features = 2 /\ Len(expl.feature_weights) = 2
    /\ expl.predicted_class = "High"
    /\ LET main == PredictBase(files, expl.features, Best, FALSE)
       IN  main.outcome = "ok" /\ main.model = explainer.model

----------------------------------------------------------------------------
(* Confidence and probabilities of a prediction *)

\* C15: when the loaded classifier exposes class probabilities, the result's
\* confidence is the maximum of the probability vector and its probabilities
\* mapping has one entry per class of the classifier, entry i keyed by the
\* decoded label of class index i - 1; when it exposes none, confidence and
\* probabilities are both None.
C15_ConfidenceAndProbabilities ==
    (ret.op = "predict_asthma_risk" /\ ret.outcome = "ok") =>
        IF HasPredictProba(ret.model.obj)
        THEN LET vector == ModelPredictProba(ret.model.obj, ret.features)
             IN  /\ ret.confidence = MaxOf(vector)
                 /\ Len(ret.probabilities) = Len(vector)
                 /\ \A i \in DOMAIN ret.probabilities :
                       /\ ret.probabilities[i].label = Decode(ret.le.obj, i - 1)
                       /\ ret.probabilities[i].p = vector[i]
        ELSE ret.confidence = None /\ ret.probabilities = <<>>

----------------------------------------------------------------------------
(* Predictions of several threads on one ml_model directory *)

\* the feature vectors the threads ask about
ThreadVectors == {TestVector, [i \in DOMAIN FEATURE_COLUMNS |-> 0]}
ThreadTypes == {Best, logistic_regression}
\* the pipelines saved while the threads predict: the families those types load
ThreadFits ==
    {fit \in Fitted : /\ fit.model.family \in {RandomForest, LogisticRegression}
                      /\ fit.columns.columns = FEATURE_COLUMNS}

\* a thread enters predict_asthma_risk
PredictBegin(t, features, model_type, include_xai) ==
    /\ callers[t].pc # "running"
    /\ callers' = [callers EXCEPT ![t] =
                     [NotCalling EXCEPT !.pc = "running", !.features = features,
                                        !.model_type = model_type,
                                        !.include_xai = include_xai]]
    /\ UNCHANGED <<later, pc, files, nsaves, lastSave, ret, saver, loader, sev,
                   explainer, expl, tr>>

\* the thread loads, predicts and returns; epoch is the number of saves the
\* directory had seen when it was read
PredictEnd(t, shap_fails, lime_fails, import_fails) ==
    LET c == callers[t]
        result == PredictAsthmaRiskOp(files, c.features, c.model_type,
                                      c.include_xai, shap_fails, lime_fails,
                                      import_fails)
    IN  /\ c.pc = "running"
        /\ callers' = [callers EXCEPT ![t] =
                         [c EXCEPT !.pc = "returned", !.epoch = nsaves,
                                   !.outcome = result.outcome,
                                   !.risk_level = result.risk_level,
                                   !.probabilities = result.probabilities]]
        /\ files' = FilesAfterPredict(files)
        /\ UNCHANGED <<later, pc, nsaves, lastSave, ret, saver, loader, sev,
                       explainer, expl, tr>>

\* the artifacts are persisted before the threads start and left alone after
Publish(fit) ==
    /\ \A t \in Threads : callers[t].pc = "idle"
    /\ SaveModel(fit)

NextPredict ==
    \/ \E fit \in ThreadFits : Publish(fit)
    \/ Continue
    \/ \E t \in Threads, features \in ThreadVectors, model_type \in ThreadTypes,
          include_xai \in BOOLEAN :
          PredictBegin(t, features, model_type, include_xai)
    \/ \E t \in Threads :
          \E import_fails \in Fails(callers[t].include_xai) :
          \E shap_fails \in Fails(callers[t].include_xai /\ ~import_fails),
             lime_fails \in Fails(callers[t].include_xai /\ ~import_fails) :
            PredictEnd(t, shap_fails, lime_fails, import_fails)

SpecPredict == Init /\ [][NextPredict]_vars

\* two returned calls with the same arguments that read the same directory
SameCall(t, u) ==
    /\ callers[t].pc = "returned" /\ callers[u].pc = "returned"
    /\ callers[t].features = callers[u].features
    /\ callers[t].model_type = callers[u].model_type
    /\ callers[t].epoch = callers[u].epoch

----------------------------------------------------------------------------
(* A train_model run, step by step *)

\* artifacts of an earlier run, persisted before this one starts
PriorFit == [model |-> Pipeline(GradientBoosting, FEATURE_COLUMNS, AllClasses),
             le |-> LabelEncoder(AllClasses),
             columns |-> ColumnList(FEATURE_COLUMNS)]
Prior ==
    /\ tr.pc = "idle"
    /\ files = {}
    /\ SaveModel(PriorFit)

\* the --model values complete_workflow.py runs train_model.py with
TrainTypes == {Best, logistic_regression}

trainRest == <<pc, ret, saver, loader, sev, explainer, expl, callers, later>>

\* train_model is entered: load_and_preprocess_data reads the table and fits
\* the label encoder on its labels
TrainBegin(counts, model_type, augment_data_flag) ==
    /\ pc = "ready"
    /\ tr.pc = "idle"
    /\ nsaves < MaxSaves
    /\ tr' = [NotTraining EXCEPT
                !.model_type = model_type,
                !.pc = IF augment_data_flag THEN "augment" ELSE "split",
                !.augment = augment_data_flag,
                !.scarce = (\E l \in LabelSet : counts[l] = 1),
                !.counts = counts,
                !.classes = ClassesOf(counts),
                !.outcome = "running"]
    /\ UNCHANGED <<files, nsaves, lastSave, trainRest>>

\* augment_data, one pass of its loop: a row is drawn at random, its label is
\* copied to the synthetic row
AugmentRow(label) ==
    /\ tr.pc = "augment"
    /\ tr.counts[label] > 0
    /\ tr' = [tr EXCEPT !.counts[label] = @ + 1,
                        !.added = @ + 1,
                        !.pc = IF tr.added + 1 = NAugment THEN "split"
                               ELSE "augment"]
    /\ UNCHANGED <<files, nsaves, lastSave, trainRest>>

\* train_test_split: it raises out of train_model, or the family loop starts;
\* plan is what the searches of this run are going to do. The table is not
\* read again after the split.
Split(plan) ==
    /\ tr.pc = "split"
    /\ tr' = IF SplitRaises(tr.counts)
             THEN [tr EXCEPT !.pc = "raised", !.outcome = "ValueError"]
             ELSE [tr EXCEPT !.pc = "train", !.plan = plan, !.counts = NoCounts]
    /\ UNCHANGED <<files, nsaves, lastSave, trainRest>>

\* train_multiple_models, one family
TrainFamily ==
    /\ tr.pc = "train"
    /\ tr' = FamilyStep(tr)
    /\ UNCHANGED <<files, nsaves, lastSave, trainRest>>

\* train_model after the loop: "if not results: return None, None"; otherwise
\* evaluate_models selects and save_model persists the selected pipeline
TrainEnd ==
    /\ tr.pc = "trained"
    /\ IF \A i \in DOMAIN tr.results : ~tr.results[i].trained
       THEN /\ tr' = [tr EXCEPT !.pc = "done", !.outcome = "None"]
            /\ UNCHANGED <<files, nsaves, lastSave>>
       ELSE LET best_model_name == EvaluateModels(tr.results)
                best_model == Pipeline(best_model_name, FEATURE_COLUMNS, tr.classes)
                le == LabelEncoder(tr.classes)
                feature_columns == ColumnList(FEATURE_COLUMNS)
            IN  /\ tr' = [tr EXCEPT !.pc = "done", !.outcome = "ok",
                                    !.best = best_model_name]
                /\ nsaves' = nsaves + 1
                /\ files' = SaveModelOp(files, best_model, le, best_model_name,
                                        feature_columns, nsaves + 1)
                /\ lastSave' = [sid |-> nsaves + 1, by |-> "train_model",
                                model_name |-> best_model_name,
                                model |-> best_model, le |-> le,
                                columns |-> feature_columns]
    /\ UNCHANGED trainRest

NextTrain ==
    \/ Prior
    \/ Continue
    \/ \E counts \in Datasets, model_type \in TrainTypes,
          augment_data_flag \in BOOLEAN :
          TrainBegin(counts, model_type, augment_data_flag)
    \/ \E label \in LabelSet : AugmentRow(label)
    \/ \E plan \in (IF SplitRaises(tr.counts) THEN {NoPlan} ELSE TrainPlans) :
          Split(plan)
    \/ TrainFamily
    \/ TrainEnd

SpecTrain == Init /\ [][NextTrain]_vars

\* the families whose search did not raise in this run
Trained == {i \in DOMAIN Families : tr.results[i].trained}
\* the position of the selected family
BestIndex == CHOOSE i \in DOMAIN Families : Families[i] = tr.best

\* C17: the selected family is one with the highest test accuracy among the
\* trained families, and among those with that accuracy it is one with the
\* highest mean cross-validation score.
C17_TieBrokenByCvMean ==
    (tr.pc = "done" /\ tr.outcome = "ok") =>
        /\ BestIndex \in Trained
        /\ \A j \in Trained :
              /\ tr.results[j].accuracy <= tr.results[BestIndex].accuracy
              /\ tr.results[j].accuracy = tr.results[BestIndex].accuracy
                    => tr.results[j].cv_mean <= tr.results[BestIndex].cv_mean

\* C18: a run in which no family trained ends in the failure TrainingFailure
\* and has persisted nothing: the directory holds no file of this run.
C18_NoFamilyIsTrainingFailure ==
    (tr.pc = "done" /\ Trained = {}) =>
        /\ tr.outcome = "TrainingFailure"
        /\ lastSave.by # "train_model"
        /\ nsaves = IF files = {} THEN 0 ELSE 1

\* the families whose search does not raise in this run
NonFailing == {i \in DOMAIN Families : ~tr.plan[i].raises}

C20_ScarceClassIsRejected ==
    tr.scarce => tr.pc \in {"augment", "split", "raised"}

----------------------------------------------------------------------------
(* The requested model family *)

\* C21: the training entry point honours the requested family: a run asked
\* for 'best' persists the family evaluate_models selects, and a run asked
\* for a family by name persists that family's artifact, so that a load of
\* that name afterwards returns the model file this run wrote.
C21_RequestedFamilyIsPersisted ==
    (tr.pc = "done" /\ tr.outcome = "ok") =>
        /\ lastSave.by = "train_model"
        /\ IF tr.model_type = Best
           THEN lastSave.model_name = EvaluateModels(tr.results)
           ELSE LET ld == LoadModelOp(files, tr.model_type)
                IN  /\ SaveFilename(lastSave.model_name) = LoadFilename(tr.model_type)
                    /\ ld.outcome = "ok"
                    /\ ld.model.sid = nsaves


----------------------------------------------------------------------------
(* augment_data step by step: SpecAugment *)

augRest == <<pc, files, nsaves, lastSave, ret, saver, loader, sev, explainer, expl, callers, tr, view, store>>

\* the outcomes of np.random.randint(low, high): none when low >= high, and
\* the call raises ValueError
RandInt(low, high) == low .. (high - 1)

\* df = pd.DataFrame(X); df['target'] = y
AugmentBegin(X, n_augment) ==
    /\ aug.pc = "idle"
    /\ aug' = [NotAugmenting EXCEPT !.pc = "loop", !.X = X, !.df = X, !.n_augment = n_augment]
    /\ UNCHANGED augRest

\* one pass of the loop: pick a row, copy it, add noise to its features,
\* clamp, append
AugmentStep(draw) ==
    /\ aug.pc = "loop"
    /\ Len(aug.augmented_data) < aug.n_augment
    /\ IF RandInt(0, Len(aug.df)) = {}
       THEN aug' = [aug EXCEPT !.pc = "raised", !.outcome = "ValueError"]
       ELSE \E sample_idx \in RandInt(0, Len(aug.df)) :
              LET sample == aug.df[sample_idx + 1]
                  noisy == Perturb(sample, draw)
              IN  aug' = [aug EXCEPT !.src = Append(@, sample_idx),
                                     !.noisy = Append(@, noisy),
                                     !.augmented_data = Append(@, Clamp(noisy))]
    /\ UNCHANGED augRest

\* the loop is over: concatenate and split features from target
AugmentEnd ==
    /\ aug.pc = "loop"
    /\ Len(aug.augmented_data) = aug.n_augment
    /\ LET combined_df == Combine(aug.df, aug.augmented_data)
       IN  aug' = [aug EXCEPT !.pc = "done", !.outcome = "ok",
                              !.X_combined = DropTarget(combined_df),
                              !.y_combined = TargetOf(combined_df)]
    /\ UNCHANGED augRest

NextAugment ==
    \/ \E X \in Tables : \E n_augment \in 0..NAugment : AugmentBegin(X, n_augment)
    \/ \E draw \in Draws : AugmentStep(draw)
    \/ AugmentEnd

SpecAugment == Init /\ [][NextAugment]_vars

\* C22: for every table and every n >= 0 augment_data returns
\* len(samples) + n rows of features and as many labels: every call that is
\* over ended normally with exactly that many of each.
C22_ReturnsAllRows ==
    aug.pc \in {"done", "raised"} =>
        /\ aug.outcome = "ok"
        /\ Len(aug.X_combined) = Len(aug.X) + aug.n_augment
        /\ Len(aug.y_combined) = Len(aug.X) + aug.n_augment

\* C23: whatever the noise drawn, every synthetic row has pm25 >= 0,
\* pm10 >= 0, 0 <= humidity <= 100 and 0 <= medication_adherence <= 1, both
\* when it is appended and in the table returned.
C23_SyntheticRowsAreInBounds ==
    LET InBounds(row) == /\ row.pm25 >= 0 /\ row.pm10 >= 0
                         /\ row.humidity >= 0 /\ row.humidity <= 100
                         /\ row.medication_adherence >= 0
                         /\ row.medication_adherence <= 1
    IN  /\ \A i \in DOMAIN aug.augmented_data : InBounds(aug.augmented_data[i])
        /\ aug.pc = "done" =>
              \A i \in DOMAIN aug.X_combined :
                  i > Len(aug.X) => InBounds(aug.X_combined[i])

\* C23 witness: a call returned two synthetic rows; the noise had taken the
\* humidity of one above 100 and its medication adherence above 1, and the
\* pm10 of the other below 0
C23_Witness ==
    /\ aug.pc = "done" /\ aug.n_augment = 2
    /\ \E i \in DOMAIN aug.noisy :
          aug.noisy[i].humidity > 100 /\ aug.noisy[i].medication_adherence > 1
    /\ \E i \in DOMAIN aug.noisy : aug.noisy[i].pm10 < 0

\* C24: every synthetic row carries the label of the row it was resampled
\* from: the noise loop changes features only.
C24_LabelIsCopied ==
    /\ \A i \in DOMAIN aug.augmented_data :
          aug.augmented_data[i].target = aug.X[aug.src[i] + 1].target
    /\ aug.pc = "done" =>
          \A i \in DOMAIN aug.src :
              aug.y_combined[Len(aug.X) + i] = aug.X[aug.src[i] + 1].target

\* C24 witness: a call returned a synthetic row whose features differ from
\* its source's, drawn from a source with a non-zero label and with a
\* non-zero draw in the target's position
C24_Witness ==
    /\ aug.pc = "done"
    /\ \E i \in DOMAIN aug.src :
          /\ aug.X[aug.src[i] + 1].target # 0
          /\ aug.augmented_data[i].temperature # aug.X[aug.src[i] + 1].temperature
          /\ aug.augmented_data[i].pm10 # aug.X[aug.src[i] + 1].pm10

\* C25: the output starts with the original samples, unchanged and in their
\* order, followed by the synthetic rows in generation order; the table is
\* not modified while rows are generated.
C25_OriginalsFirstThenSynthetic ==
    /\ aug.pc # "idle" => aug.df = aug.X
    /\ aug.pc = "done" =>
          /\ \A i \in DOMAIN aug.X :
                /\ aug.X_combined[i] = DropTarget(aug.X)[i]
                /\ aug.y_combined[i] = aug.X[i].target
          /\ \A i \in DOMAIN aug.augmented_data :
                /\ aug.X_combined[Len(aug.X) + i] = DropTarget(aug.augmented_data)[i]
                /\ aug.y_combined[Len(aug.X) + i] = aug.augmented_data[i].target

\* C25 witness: a table of two different rows was augmented with two
\* synthetic rows, the first drawn from the second row and the second from
\* the first, both changed by the noise
C25_Witness ==
    /\ aug.pc = "done" /\ Len(aug.X) = 2 /\ aug.X[1] # aug.X[2]
    /\ aug.src = <<1, 0>>
    /\ aug.augmented_data[1] # aug.X[2] /\ aug.augmented_data[2] # aug.X[1]


----------------------------------------------------------------------------
(* Severity: monotonic, and the same wherever it is computed *)

\* the order Low < Moderate < High
TierRank(tier) == CASE tier = "Low" -> 0 [] tier = "Moderate" -> 1 [] tier = "High" -> 2

\* the symptoms with one more indicator set to true
SetTrue(symptoms, n) == [k \in (DOMAIN symptoms) \cup {n} |-> IF k = n THEN TRUE ELSE symptoms[k]]

\* C26: the severity score is deterministic and monotonic: the tier computed
\* is the tier of scoring the same symptoms again, and setting one more
\* recognized indicator to true never lowers the tier, in either function.
C26_SeverityIsMonotonic ==
    sev.by # "none" =>
        /\ sev.by = "collector" => sev.severity = CollectorCalculateSeverity(sev.symptoms)
        /\ sev.by = "view" => sev.severity = ViewCalculateSeverity(sev.symptoms)
        /\ \A n \in DOMAIN CollectorSeverityMap :
              TierRank(CollectorCalculateSeverity(sev.symptoms)) <= TierRank(CollectorCalculateSeverity(SetTrue(sev.symptoms, n)))
        /\ \A n \in DOMAIN ViewSeverityMap :
              TierRank(ViewCalculateSeverity(sev.symptoms)) <= TierRank(ViewCalculateSeverity(SetTrue(sev.symptoms, n)))

\* C26 witness: the collector scored wheezing and difficulty sleeping, with
\* coughing reported as absent, as Moderate; the same report with coughing
\* set to true is High
C26_Witness ==
    /\ sev.by = "collector" /\ sev.severity = "Moderate"
    /\ DOMAIN sev.symptoms = {"wheezing", "difficulty_sleeping", "coughing"}
    /\ sev.symptoms["wheezing"] /\ sev.symptoms["difficulty_sleeping"]
    /\ ~sev.symptoms["coughing"]
    /\ CollectorCalculateSeverity(SetTrue(sev.symptoms, "coughing")) = "High"

\* C27: the view and the collector return the same tier for every symptom
\* mapping, so the tier either of them computed for a report is the tier the
\* other computes for it.
C27_SeverityIsTheSameEverywhere ==
    sev.by # "none" =>
        /\ CollectorCalculateSeverity(sev.symptoms) = ViewCalculateSeverity(sev.symptoms)
        /\ sev.severity = CollectorCalculateSeverity(sev.symptoms)
        /\ sev.severity = ViewCalculateSeverity(sev.symptoms)

\* C27 witness: the view scored coughing and difficulty sleeping, with an
\* unrecognized indicator also true, as Moderate
C27_Witness ==
    /\ sev.by = "view" /\ sev.severity = "Moderate"
    /\ DOMAIN sev.symptoms = {"coughing", "difficulty_sleeping", "fever"}
    /\ \A n \in DOMAIN sev.symptoms : sev.symptoms[n]


----------------------------------------------------------------------------
(* The label encoder *)

----------------------------------------------------------------------------
(* The prediction view, one request after the other: SpecView *)

MaxRequests == 2

viewRest == <<pc, files, nsaves, lastSave, ret, saver, loader, sev, explainer, expl, callers, tr, aug, store>>

\* the request arrives and the weather and air quality services are asked;
\* either may fail to give data, and the view answers 400
ViewRequest(user_email, user_phone, weather_ok, aqi_ok) ==
    /\ view.pc \in {"idle", "responded"}
    /\ view.served < MaxRequests
    /\ view' = [NoRequest EXCEPT !.served = view.served,
                                 !.email = user_email, !.phone = user_phone,
                                 !.pc = IF weather_ok /\ aqi_ok THEN "fetched" ELSE "responded",
                                 !.status = IF weather_ok /\ aqi_ok THEN 0 ELSE 400]
    /\ UNCHANGED viewRest

\* predict_asthma_risk returns a risk level, or raises and the view
\* answers 500
ViewPredict(raises, risk_level) ==
    /\ view.pc = "fetched"
    /\ view' = IF raises
               THEN [view EXCEPT !.pc = "responded", !.status = 500]
               ELSE [view EXCEPT !.pc = "predicted", !.asthma_risk = risk_level]
    /\ UNCHANGED viewRest

\* the alert, if one is due: send_asthma_alert sends the email and the SMS
\* for the contacts given unless building the message raises; it catches
\* every exception itself
ViewAlert(message_raises) ==
    /\ view.pc = "predicted"
    /\ view' = IF ~AlertDue(view.asthma_risk, view.email, view.phone)
               THEN [view EXCEPT !.pc = "alerted"]
               ELSE [view EXCEPT !.pc = "alerted",
                                 !.alerts = @ + 1,
                                 !.email_calls = IF ~message_raises /\ Truthy(view.email) THEN @ + 1 ELSE @,
                                 !.sms_calls = IF ~message_raises /\ Truthy(view.phone) THEN @ + 1 ELSE @]
    /\ UNCHANGED viewRest

\* advice, feature importance and local reports, then the response: 200, or
\* 500 when one of them raises
ViewRespond(raises) ==
    /\ view.pc = "alerted"
    /\ view' = [view EXCEPT !.pc = "responded", !.served = @ + 1,
                            !.status = IF raises THEN 500 ELSE 200]
    /\ UNCHANGED viewRest

NextView ==
    \/ \E user_email \in Emails, user_phone \in Phones, weather_ok \in BOOLEAN, aqi_ok \in BOOLEAN : ViewRequest(user_email, user_phone, weather_ok, aqi_ok)
    \/ \E raises \in BOOLEAN, risk_level \in LabelSet : ViewPredict(raises, risk_level)
    \/ \E message_raises \in BOOLEAN : ViewAlert(message_raises)
    \/ \E raises \in BOOLEAN : ViewRespond(raises)

SpecView == Init /\ [][NextView]_vars

\* C29: an alert is sent only for a High prediction with a contact: a request
\* whose predicted level is Low or Moderate, or that gave neither email nor
\* phone, or that has no prediction yet, has made no alert call and no email
\* or SMS call; and a High prediction with a contact has its alert call made
\* once the view is past the alert step, so before any response.
C29_AlertOnlyWhenHighWithContact ==
    LET contact == view.email # "" \/ view.phone # ""
    IN  /\ (view.asthma_risk # "High" \/ ~contact) =>
              view.alerts = 0 /\ view.email_calls = 0 /\ view.sms_calls = 0
        /\ view.email = "" => view.email_calls = 0
        /\ view.phone = "" => view.sms_calls = 0
        /\ (view.asthma_risk = "High" /\ contact /\ view.pc \in {"alerted", "responded"}) =>
              view.alerts = 1

\* C29 witness: a request with a phone number and no email was predicted
\* High, the alert went out by SMS only, and the view answered 200
C29_Witness ==
    /\ view.pc = "responded" /\ view.status = 200
    /\ view.asthma_risk = "High" /\ view.email = "" /\ view.phone # ""
    /\ view.alerts = 1 /\ view.sms_calls = 1 /\ view.email_calls = 0


----------------------------------------------------------------------------
(* save_report and verify_report on the one report file: SpecReports *)

MaxReports == 2

\* the values hash(timestamp + user_id) % 1000000 takes: two reports can get
\* the same id
ReportIds == {1, 2}

storeRest == <<pc, files, nsaves, lastSave, ret, saver, loader, sev, explainer, expl, callers, tr, aug, view>>

\* save_report: one row, not verified, appended to the file; "saved" keeps
\* the reports whose call returned an id, "timestamp" tells them apart
SaveReport(report_id) ==
    /\ Len(store.saved) < MaxReports
    /\ LET timestamp == Len(store.saved) + 1
       IN  store' = [store EXCEPT
                       !.rows = Append(@, [report_id |-> report_id, timestamp |-> timestamp, verified |-> FALSE]),
                       !.saved = Append(@, [report_id |-> report_id, timestamp |-> timestamp])]
    /\ UNCHANGED storeRest

\* verify_report, first half: read every row, marking those with the id
VerifyRead(report_id) ==
    /\ store.pc = "idle"
    /\ store' = [store EXCEPT
                   !.pc = "read", !.report_id = report_id,
                   !.read = [i \in DOMAIN store.rows |->
                                IF store.rows[i].report_id = report_id
                                THEN [store.rows[i] EXCEPT !.verified = TRUE]
                                ELSE store.rows[i]]]
    /\ UNCHANGED storeRest

\* verify_report, second half: open the file for writing and write the rows
\* read
VerifyWrite ==
    /\ store.pc = "read"
    /\ store' = [store EXCEPT !.pc = "idle", !.rows = store.read, !.read = <<>>]
    /\ UNCHANGED storeRest

NextReports ==
    \/ \E report_id \in ReportIds : SaveReport(report_id)
    \/ \E report_id \in ReportIds : VerifyRead(report_id)
    \/ VerifyWrite

SpecReports == Init /\ [][NextReports]_vars

\* C30: no report is lost by verification: under every interleaving of
\* save_report with the two halves of verify_report, every report whose
\* save_report returned an id has its row in the file.
C30_NoReportIsLost ==
    \A i \in DOMAIN store.saved :
        \E j \in DOMAIN store.rows :
            /\ store.rows[j].report_id = store.saved[i].report_id
            /\ store.rows[j].timestamp = store.saved[i].timestamp

====
